---- MODULE Spec2Model ----
(***************************************************************************)
(* Model of QuestionnaireAnalysis (src/hw5.py): a questionnaire dataset    *)
(* held in self.data and the operations clean_data, show_age_distrib,      *)
(* remove_rows_without_mail, fill_na_with_mean, score_subjects and         *)
(* correlate_gender_age.                                                   *)
(*                                                                         *)
(* A frame is a sequence of rows; a row carries its index label and one    *)
(* cell per column.  A cell is [t, n, d, s]:                               *)
(*   t = "num"  the number n/d (d > 0, lowest terms)                       *)
(*   t = "str"  the string s, a sequence of one-character strings          *)
(*   t = "time" the parsed point in time n                                 *)
(*   t = "nan"  missing (None / NaN / NaT / NA)                            *)
(*   t = "nocol" the column does not exist in the frame                    *)
(***************************************************************************)
EXTENDS Integers, Sequences, FiniteSets, TLC

VARIABLES file, data, op, arg, raised, out, outIdx, outHist, outGroups

vars == <<file, data, op, arg, raised, out, outIdx, outHist, outGroups>>

\* ---------------------------------------------------------------- bounds
MaxRows == 2
MaxTime == 2

\* ------------------------------------------------------------- constants
NumQuestions == 5
AgeThreshold == 40
BinWidth == 10
NumBins == 10
UInt8Modulus == 256

\* ----------------------------------------------------------------- cells
Num(k) == [t |-> "num", n |-> k, d |-> 1, s |-> <<>>]
Str(x) == [t |-> "str", n |-> 0, d |-> 1, s |-> x]
Time(k) == [t |-> "time", n |-> k, d |-> 1, s |-> <<>>]
NaN == [t |-> "nan", n |-> 0, d |-> 1, s |-> <<>>]
NoCol == [t |-> "nocol", n |-> 0, d |-> 1, s |-> <<>>]

isna(c) == c.t = "nan"

Abs(k) == IF k < 0 THEN -k ELSE k

RECURSIVE GCD(_, _)
GCD(a, b) == IF b = 0 THEN a ELSE GCD(b, a % b)

\* the number a/b (b > 0) in lowest terms
Frac(a, b) ==
  LET g == GCD(Abs(a), b)
  IN [t |-> "num", n |-> a \div g, d |-> b \div g, s |-> <<>>]

\* --------------------------------------------------------------- strings
DigitChars == <<"0", "1", "2", "3", "4", "5", "6", "7", "8", "9">>

IsDigit(c) == \E i \in 1..Len(DigitChars) : DigitChars[i] = c

DigitVal(c) == (CHOOSE i \in 1..Len(DigitChars) : DigitChars[i] = c) - 1

AllDigits(x) == Len(x) > 0 /\ \A i \in 1..Len(x) : IsDigit(x[i])

RECURSIVE ParseNat(_)
ParseNat(x) ==
  IF x = <<>> THEN 0
  ELSE 10 * ParseNat(SubSeq(x, 1, Len(x) - 1)) + DigitVal(x[Len(x)])

Contains(x, c) == \E i \in 1..Len(x) : x[i] = c

\* str.split(sep) for a one-character separator: the list of the pieces
RECURSIVE split(_, _)
split(x, sep) ==
  IF ~Contains(x, sep) THEN <<x>>
  ELSE LET i == CHOOSE j \in 1..Len(x) :
                  x[j] = sep /\ \A k \in 1..(j - 1) : x[k] # sep
       IN <<SubSeq(x, 1, i - 1)>> \o split(SubSeq(x, i + 1, Len(x)), sep)

startswith(x, c) == Len(x) > 0 /\ x[1] = c

endswith(x, c) == Len(x) > 0 /\ x[Len(x)] = c

\* ------------------------------------------------------------- coercions
\* pd.to_numeric(errors='coerce') on one cell
to_numeric(c) ==
  IF c.t = "num" THEN c
  ELSE IF c.t = "str" THEN
    IF AllDigits(c.s) THEN Num(ParseNat(c.s))
    ELSE IF Len(c.s) > 1 /\ c.s[1] = "-" /\ AllDigits(Tail(c.s))
      THEN Num(0 - ParseNat(Tail(c.s)))
    ELSE NaN
  ELSE NaN

\* pd.to_datetime(errors='coerce') on one cell; a timestamp string is
\* written "T<digits>" and denotes the point in time <digits>
to_datetime(c) ==
  IF c.t = "time" THEN c
  ELSE IF c.t = "str" /\ Len(c.s) > 1 /\ c.s[1] = "T" /\ AllDigits(Tail(c.s))
    THEN Time(ParseNat(Tail(c.s)))
  ELSE NaN

CoerceQ(row) == [row EXCEPT !.q = [i \in 1..NumQuestions |-> to_numeric(row.q[i])]]

CoerceAllQ(rows) == [i \in 1..Len(rows) |-> CoerceQ(rows[i])]

\* ------------------------------------------------------------ clean_data
valid_genders == {<<"M", "a", "l", "e">>, <<"F", "e", "m", "a", "l", "e">>,
                  <<"O", "t", "h", "e", "r">>, <<"F", "l", "u", "i", "d">>}

\* the age filter without its sign test
CleanAgeKeepAnySign(row) == row.age.t = "num"

CleanAgeKeep(row) == row.age.t = "num" /\ row.age.n >= 0

CleanEmailCell(x) ==
  IF x.t = "str" /\ Contains(x.s, "@")
     /\ Contains(split(x.s, "@")[Len(split(x.s, "@"))], ".")
  THEN x ELSE NaN

CleanGenderCell(x) == IF x.t = "str" /\ x.s \in valid_genders THEN x ELSE NaN

clean_data(rows, now) ==
  LET CleanTimeKeep(row) == row.timestamp.t = "time" /\ row.timestamp.n <= now
      NotNaEmail(row) == ~isna(row.email)
      NotNaGender(row) == ~isna(row.gender)
      d1 == [i \in 1..Len(rows) |-> [rows[i] EXCEPT !.age = to_numeric(@)]]
      d2 == SelectSeq(d1, CleanAgeKeep)
      d3 == [i \in 1..Len(d2) |-> [d2[i] EXCEPT !.timestamp = to_datetime(@)]]
      d4 == SelectSeq(d3, CleanTimeKeep)
      d5 == [i \in 1..Len(d4) |-> [d4[i] EXCEPT !.email = CleanEmailCell(@)]]
      d6 == SelectSeq(d5, NotNaEmail)
      d7 == [i \in 1..Len(d6) |-> [d6[i] EXCEPT !.gender = CleanGenderCell(@)]]
      d8 == SelectSeq(d7, NotNaGender)
  IN CoerceAllQ(d8)

\* ------------------------------------------------------ show_age_distrib
\* astype(int): truncation toward zero
Trunc(c) == IF c.n >= 0 THEN c.n \div c.d ELSE 0 - ((0 - c.n) \div c.d)

bins == [i \in 1..(NumBins + 1) |-> (i - 1) * BinWidth]

\* np.histogram(ages, bins): half-open bins, the last one closed
InBin(a, b) ==
  /\ bins[b] <= a
  /\ IF b = NumBins THEN a <= bins[b + 1] ELSE a < bins[b + 1]

show_age_distrib(rows) ==
  LET ages == [i \in 1..Len(rows) |-> to_numeric(rows[i].age)]
      kept == {i \in 1..Len(rows) : ~isna(ages[i])}
  IN [hist |-> [b \in 1..NumBins |->
                  Cardinality({i \in kept : InBin(Trunc(ages[i]), b)})],
      edges |-> bins]

\* ---------------------------------------------- remove_rows_without_mail
\* email.split on a value that is neither missing nor a string
EmailRaises(c) == ~isna(c) /\ c.t # "str"

\* the validity predicate without the test of the domain's first character
is_valid_email_lax(c) ==
  IF isna(c) THEN FALSE
  ELSE LET parts == split(c.s, "@")
       IN IF Len(parts) # 2 THEN FALSE
          ELSE LET domain == parts[2]
               IN /\ Contains(domain, ".")
                  /\ ~startswith(c.s, ".")
                  /\ ~endswith(c.s, ".")

is_valid_email(c) ==
  IF isna(c) THEN FALSE
  ELSE LET parts == split(c.s, "@")
       IN IF Len(parts) # 2 THEN FALSE
          ELSE LET domain == parts[2]
               IN /\ Contains(domain, ".")
                  /\ ~startswith(c.s, ".")
                  /\ ~endswith(c.s, ".")
                  /\ domain[1] # "."

reset_index(rows) == [i \in 1..Len(rows) |-> [rows[i] EXCEPT !.idx = i - 1]]

remove_rows_without_mail(rows) ==
  LET ValidRow(row) == is_valid_email(row.email)
  IN reset_index(SelectSeq(rows, ValidRow))

\* ----------------------------------------------------- fill_na_with_mean
RECURSIVE SumSeq(_)
SumSeq(x) == IF x = <<>> THEN 0 ELSE Head(x) + SumSeq(Tail(x))

IsNum(c) == c.t = "num"

\* mean of the cells of a sequence, missing cells skipped; NaN when all
\* are missing.  The cells of self.data are whole numbers.
MeanSkipNa(cells) ==
  LET present == SelectSeq(cells, IsNum)
  IN IF present = <<>> THEN NaN
     ELSE Frac(SumSeq([i \in 1..Len(present) |-> present[i].n]), Len(present))

\* a row mean that divides by the number of questions
RowMeanCountingMissing(row) ==
  LET present == SelectSeq(row.q, IsNum)
  IN IF present = <<>> THEN NaN
     ELSE Frac(SumSeq([i \in 1..Len(present) |-> present[i].n]), NumQuestions)

RowMean(row) == MeanSkipNa(row.q)

nan_count(row) == Cardinality({i \in 1..NumQuestions : isna(row.q[i])})

fillna(c, v) == IF isna(c) THEN v ELSE c

FillRow(row) ==
  IF nan_count(row) > 0
  THEN [row EXCEPT !.q = [i \in 1..NumQuestions |-> fillna(row.q[i], RowMean(row))]]
  ELSE row

filled_df(rows) == [i \in 1..Len(rows) |-> FillRow(rows[i])]

rows_with_missing(rows) ==
  LET HasMissing(row) == nan_count(row) > 0
      sel == SelectSeq(rows, HasMissing)
  IN [i \in 1..Len(sel) |-> sel[i].idx]

\* -------------------------------------------------------- score_subjects
Thresholds == 0..NumQuestions

\* what a float -> uint8 cast of an out-of-range value yields depends on
\* the platform
CastModes == {"wrap", "saturate"}

AsUInt8(m, mode) ==
  LET k == Trunc(m)
  IN IF k < UInt8Modulus THEN Num(k)
     ELSE IF mode = "wrap" THEN Num(k % UInt8Modulus)
     ELSE Num(UInt8Modulus - 1)

ScoreRow(row, t, mode) ==
  [row EXCEPT !.score = IF nan_count(row) > t THEN NaN
                        ELSE AsUInt8(RowMean(row), mode)]

\* astype("uint8") refuses a column holding NaN or a negative value
ScoreCastError(rows) ==
  IF \E i \in 1..Len(rows) : isna(RowMean(rows[i])) THEN "IntCastingNaNError"
  ELSE IF \E i \in 1..Len(rows) : RowMean(rows[i]).n < 0 THEN "ValueError"
  ELSE "none"

\* -------------------------------------------------- correlate_gender_age
CoerceAge(rows) == [i \in 1..Len(rows) |-> [rows[i] EXCEPT !.age = to_numeric(@)]]

\* the age flag with the threshold on the True side
AtOrAboveThreshold(row) == row.age.n >= AgeThreshold * row.age.d

AboveThreshold(row) == row.age.n > AgeThreshold * row.age.d

\* groupby(level=['gender', 'age']).mean(): one entry per key that has
\* members; rows whose key holds a missing value belong to no group
grouped(rows) ==
  LET HasAge(row) == ~isna(row.age)
      cleaned_data == SelectSeq(rows, HasAge)
      keys == {<<cleaned_data[i].gender, AboveThreshold(cleaned_data[i])>> :
                 i \in {j \in 1..Len(cleaned_data) : ~isna(cleaned_data[j].gender)}}
      Members(key) ==
        LET InGroup(row) == row.gender = key[1] /\ AboveThreshold(row) = key[2]
        IN SelectSeq(cleaned_data, InGroup)
      ColMean(m, c) == MeanSkipNa([i \in 1..Len(m) |-> m[i].q[c]])
  IN {[gender |-> key[1], age |-> key[2],
       q |-> [c \in 1..NumQuestions |-> ColMean(Members(key), c)]] : key \in keys}

\* ---------------------------------------------------------------- state
NoData == [loaded |-> FALSE, rows |-> <<>>]

NoHist == [hist |-> <<>>, edges |-> <<>>]

\* pd.DataFrame(json.load(file)): a RangeIndex and no score column
DataFrame(recs) ==
  [i \in 1..Len(recs) |->
     [idx |-> i - 1, age |-> recs[i].age, timestamp |-> recs[i].timestamp,
      email |-> recs[i].email, gender |-> recs[i].gender, q |-> recs[i].q,
      score |-> NoCol]]

Returns(o, a) == op' = o /\ arg' = a /\ raised' = "none"

Raises(o, a, e) ==
  /\ op' = o /\ arg' = a /\ raised' = e
  /\ out' = <<>> /\ outIdx' = <<>> /\ outHist' = NoHist /\ outGroups' = {}

InitWith(files) ==
  /\ file \in files
  /\ data = NoData
  /\ op = "init" /\ arg = 0 /\ raised = "none"
  /\ out = <<>> /\ outIdx = <<>> /\ outHist = NoHist /\ outGroups = {}

read_data ==
  /\ data' = [loaded |-> TRUE, rows |-> DataFrame(file)]
  /\ Returns("read_data", 0)
  /\ out' = <<>> /\ outIdx' = <<>> /\ outHist' = NoHist /\ outGroups' = {}
  /\ UNCHANGED file

\* clean_data(self.data) at the moment now
CleanData ==
  /\ data.loaded
  /\ \E now \in 0..MaxTime :
       /\ out' = clean_data(data.rows, now)
       /\ Returns("clean_data", now)
  /\ outIdx' = <<>> /\ outHist' = NoHist /\ outGroups' = {}
  /\ UNCHANGED <<file, data>>

ShowAgeDistrib ==
  /\ IF ~data.loaded
     THEN Raises("show_age_distrib", 0, "ValueError")
     ELSE /\ outHist' = show_age_distrib(data.rows)
          /\ Returns("show_age_distrib", 0)
          /\ out' = <<>> /\ outIdx' = <<>> /\ outGroups' = {}
  /\ UNCHANGED <<file, data>>

RemoveRowsWithoutMail ==
  /\ IF ~data.loaded
     THEN Raises("remove_rows_without_mail", 0, "TypeError")
     ELSE IF \E i \in 1..Len(data.rows) : EmailRaises(data.rows[i].email)
     THEN Raises("remove_rows_without_mail", 0, "AttributeError")
     ELSE /\ out' = remove_rows_without_mail(data.rows)
          /\ Returns("remove_rows_without_mail", 0)
          /\ outIdx' = <<>> /\ outHist' = NoHist /\ outGroups' = {}
  /\ UNCHANGED <<file, data>>

FillNaWithMean ==
  /\ IF ~data.loaded
     THEN Raises("fill_na_with_mean", 0, "ValueError") /\ UNCHANGED data
     ELSE LET coerced == CoerceAllQ(data.rows)
          IN /\ data' = [data EXCEPT !.rows = coerced]
             /\ out' = filled_df(coerced)
             /\ outIdx' = rows_with_missing(coerced)
             /\ Returns("fill_na_with_mean", 0)
             /\ outHist' = NoHist /\ outGroups' = {}
  /\ UNCHANGED file

ScoreSubjects ==
  /\ \E t \in Thresholds, mode \in CastModes :
       IF ~data.loaded
       THEN Raises("score_subjects", t, "ValueError") /\ UNCHANGED data
       ELSE LET coerced == CoerceAllQ(data.rows)
            IN IF ScoreCastError(coerced) # "none"
               THEN /\ data' = [data EXCEPT !.rows = coerced]
                    /\ Raises("score_subjects", t, ScoreCastError(coerced))
               ELSE /\ data' = [data EXCEPT !.rows =
                          [i \in 1..Len(coerced) |-> ScoreRow(coerced[i], t, mode)]]
                    /\ out' = data'.rows
                    /\ Returns("score_subjects", t)
                    /\ outIdx' = <<>> /\ outHist' = NoHist /\ outGroups' = {}
  /\ UNCHANGED file

CorrelateGenderAge ==
  /\ IF ~data.loaded
     THEN Raises("correlate_gender_age", 0, "ValueError") /\ UNCHANGED data
     ELSE LET coerced == CoerceAge(CoerceAllQ(data.rows))
          IN /\ data' = [data EXCEPT !.rows = coerced]
             /\ outGroups' = grouped(coerced)
             /\ Returns("correlate_gender_age", 0)
             /\ out' = <<>> /\ outIdx' = <<>> /\ outHist' = NoHist
  /\ UNCHANGED file

\* ---------------------------------------------------------------- inputs
Male == <<"M", "a", "l", "e">>
Female == <<"F", "e", "m", "a", "l", "e">>
Fluid == <<"F", "l", "u", "i", "d">>

\* the timestamp string that denotes the point in time k
TimeStr(k) == Str(<<"T", DigitChars[k + 1]>>)

GoodEmail == Str(<<"a", "@", "b", ".", "c">>)

GoodQ == <<Num(10), Num(20), Num(30), Num(40), Num(50)>>

Rec(a, ts, e, g, qs) == [age |-> a, timestamp |-> ts, email |-> e, gender |-> g, q |-> qs]

BaseRec == Rec(Num(30), TimeStr(0), GoodEmail, Str(Male), GoodQ)

AgeCells == {Num(0), Num(0 - 1), Str(<<"4", "1">>), Str(<<"-", "3">>),
             Str(<<"a", "b", "c">>), NaN}

TimeCells == {TimeStr(k) : k \in 1..MaxTime} \cup {Str(<<"s", "o", "o", "n">>), NaN}

GenderCells == {Str(Fluid), Str(<<"m", "a", "l", "e">>), Num(1), NaN}

EmailCells ==
  {Str(<<"a", "@", "b">>),
   Str(<<"a", "b", ".", "c">>),
   Str(<<"a", "@", "b", "@", "c", ".", "d">>),
   Str(<<"a", "@", "@", "b", ".", "c">>),
   Str(<<".", "a", "@", "b", ".", "c">>),
   Str(<<"a", "@", "b", ".", "c", ".">>),
   Str(<<"a", "@", ".", "b", "c">>),
   Str(<<"a", ".", "b", "@", "c">>),
   Str(<<"@", "b", ".", "c">>),
   Str(<<"a", "@">>),
   Str(<<>>),
   NaN}

NonStringEmail == Num(5)

Junk == Str(<<"x">>)

QCells ==
  {<<Num(10), Num(20), Num(30), Num(40), NaN>>,
   <<Num(10), Num(20), NaN, NaN, Num(50)>>,
   <<NaN, NaN, NaN, NaN, Num(7)>>,
   <<NaN, NaN, NaN, NaN, NaN>>,
   <<Junk, Num(20), Num(30), Num(40), Num(50)>>,
   <<Str(<<"1", "0">>), Num(20), Num(30), Num(40), Num(50)>>,
   <<Num(1), Num(2), Num(2), NaN, NaN>>,
   <<Num(0), Num(0), Num(0), Num(0), Num(1)>>,
   <<Num(100), Num(100), Num(100), Num(100), Num(100)>>,
   <<Num(200), Num(200), Num(200), Num(200), Num(200)>>,
   <<Num(300), Num(300), Num(300), Num(300), Num(300)>>}

\* files of 1..MaxRows records
FilesOf(recs) == UNION {[1..k -> recs] : k \in 1..MaxRows}

CleanerRecs ==
  {BaseRec}
  \cup {[BaseRec EXCEPT !.age = c] : c \in AgeCells}
  \cup {[BaseRec EXCEPT !.timestamp = c] : c \in TimeCells}
  \cup {[BaseRec EXCEPT !.gender = c] : c \in GenderCells}
  \cup {[BaseRec EXCEPT !.email = c] : c \in EmailCells \cup {NonStringEmail}}
  \cup {[BaseRec EXCEPT !.q = <<Junk, NaN, Num(30), Num(40), Num(50)>>],
        [BaseRec EXCEPT !.age = Num(0 - 1), !.gender = NaN],
        [BaseRec EXCEPT !.timestamp = NaN, !.email = NaN]}

MailRecs == {BaseRec} \cup {[BaseRec EXCEPT !.email = c] : c \in EmailCells \cup {NonStringEmail}}

AnswerRecs == {BaseRec} \cup {[BaseRec EXCEPT !.q = c] : c \in QCells}

GroupRecs ==
  {Rec(a, TimeStr(0), GoodEmail, g, qs) :
     a \in {Num(AgeThreshold), Num(AgeThreshold + 5), Str(<<"2", "0">>),
            Str(<<"a", "b", "c">>), NaN},
     g \in {Str(Male), Str(Female), NaN},
     qs \in {<<Num(80), Num(10), Num(30), Num(40), Num(50)>>,
             <<Num(60), NaN, Num(30), Num(40), Num(50)>>,
             <<NaN, Junk, Num(31), Num(40), Num(50)>>}}

MixedRecs ==
  {BaseRec,
   [BaseRec EXCEPT !.age = Str(<<"a", "b", "c">>)],
   [BaseRec EXCEPT !.age = Str(<<"4", "1">>), !.gender = Str(Female)],
   [BaseRec EXCEPT !.q = <<NaN, NaN, NaN, NaN, NaN>>],
   [BaseRec EXCEPT !.q = <<Junk, Num(20), Num(30), Num(40), Num(50)>>],
   [BaseRec EXCEPT !.email = NonStringEmail],
   [BaseRec EXCEPT !.email = Str(<<"a", "@", "b">>), !.timestamp = TimeStr(MaxTime)],
   [BaseRec EXCEPT !.gender = NaN, !.q = <<Num(10), Num(20), Num(30), Num(40), NaN>>]}

\* -------------------------------------------------------- specifications
Init == InitWith(FilesOf(MixedRecs))

Next ==
  \/ read_data
  \/ CleanData
  \/ ShowAgeDistrib
  \/ RemoveRowsWithoutMail
  \/ FillNaWithMean
  \/ ScoreSubjects
  \/ CorrelateGenderAge

Spec == Init /\ [][Next]_vars

InitClean == InitWith(FilesOf(CleanerRecs))

NextClean == read_data \/ CleanData

SpecClean == InitClean /\ [][NextClean]_vars

InitMail == InitWith(FilesOf(MailRecs))

NextMail == read_data \/ RemoveRowsWithoutMail

SpecMail == InitMail /\ [][NextMail]_vars

InitAnswers == InitWith(FilesOf(AnswerRecs))

NextAnswers == read_data \/ FillNaWithMean \/ ScoreSubjects

SpecAnswers == InitAnswers /\ [][NextAnswers]_vars

InitGroup == InitWith(FilesOf(GroupRecs))

NextGroup == read_data \/ CorrelateGenderAge

SpecGroup == InitGroup /\ [][NextGroup]_vars

\* ------------------------------------------------------------ properties
Loaded(o) == op = o /\ data.loaded

Completed(o) == Loaded(o) /\ raised = "none"

CountChar(x, c) == Cardinality({i \in 1..Len(x) : x[i] = c})

\* the text after the first occurrence of c
After(x, c) ==
  LET i == CHOOSE j \in 1..Len(x) : x[j] = c /\ \A k \in 1..(j - 1) : x[k] # c
  IN SubSeq(x, i + 1, Len(x))

GenderEnumeration == {Male, Female, <<"O", "t", "h", "e", "r">>, Fluid}

InOut(label) == \E i \in 1..Len(out) : out[i].idx = label

BadAge(c) == to_numeric(c).t # "num" \/ to_numeric(c).n < 0

BadTime(c, now) == to_datetime(c).t # "time" \/ to_datetime(c).n > now

BadGender(c) == c.t # "str" \/ c.s \notin GenderEnumeration

\* C1: every row clean_data returns has a non-negative numeric age, a
\* timestamp that is a point in time not later than the moment of cleaning
\* and a gender of the enumeration; every input row with a non-coercible or
\* negative age, a non-coercible or future timestamp, or a gender outside
\* the enumeration is absent from the result.
C1_CleanedRowsValid ==
  Completed("clean_data") =>
    /\ \A i \in 1..Len(out) :
         /\ out[i].age.t = "num" /\ out[i].age.n >= 0
         /\ out[i].timestamp.t = "time" /\ out[i].timestamp.n <= arg
         /\ out[i].gender.t = "str" /\ out[i].gender.s \in GenderEnumeration
    /\ \A j \in 1..Len(data.rows) :
         (BadAge(data.rows[j].age) \/ BadTime(data.rows[j].timestamp, arg)
            \/ BadGender(data.rows[j].gender))
           => ~InOut(data.rows[j].idx)

C1_Witness ==
  /\ Completed("clean_data")
  /\ Len(out) = 1
  /\ \E j \in 1..Len(data.rows) :
       /\ ~BadAge(data.rows[j].age) /\ ~BadGender(data.rows[j].gender)
       /\ BadTime(data.rows[j].timestamp, arg)
       /\ to_datetime(data.rows[j].timestamp).t = "time"

\* C2: every row clean_data returns has an email that is a string with
\* exactly one '@' whose domain part is non-empty and contains a '.'.
C2_CleanedEmailOneAt ==
  Completed("clean_data") =>
    \A i \in 1..Len(out) :
      /\ out[i].email.t = "str"
      /\ CountChar(out[i].email.s, "@") = 1
      /\ After(out[i].email.s, "@") # <<>>
      /\ Contains(After(out[i].email.s, "@"), ".")

Present(row) == {c \in 1..NumQuestions : row.q[c].t = "num"}

RECURSIVE SetSum(_, _)
SetSum(S, f) ==
  IF S = {} THEN 0
  ELSE LET x == CHOOSE y \in S : TRUE IN f[x] + SetSum(S \ {x}, f)

AnswerSum(row) == SetSum(Present(row), [c \in Present(row) |-> row.q[c].n])

\* the cell v is the number total / count
IsQuotient(v, total, count) == v.t = "num" /\ v.n * count = total * v.d

\* C3: after score_subjects(t) every row with more than t missing answers
\* carries the "no score" marker and every other row carries the floor of
\* the mean of its non-missing answers.
C3_ScoreIsFloorMean ==
  Loaded("score_subjects") =>
    /\ raised = "none"
    /\ \A i \in 1..Len(data.rows) :
         LET row == data.rows[i]
             missing == NumQuestions - Cardinality(Present(row))
         IN IF missing > arg THEN row.score = NaN
            ELSE /\ row.score.t = "num" /\ row.score.d = 1
                 /\ row.score.n * Cardinality(Present(row)) <= AnswerSum(row)
                 /\ AnswerSum(row) < (row.score.n + 1) * Cardinality(Present(row))

\* C4: after score_subjects every row's score is the "no score" marker or
\* an integer within 0..100.
C4_ScoreInRange ==
  Completed("score_subjects") =>
    \A i \in 1..Len(data.rows) :
      \/ data.rows[i].score = NaN
      \/ /\ data.rows[i].score.t = "num" /\ data.rows[i].score.d = 1
         /\ 0 <= data.rows[i].score.n /\ data.rows[i].score.n <= 100

FillNaStep == op' = "fill_na_with_mean" /\ data.loaded

\* C5: fill_na_with_mean returns, for a row without missing answers, the
\* row itself (answers as numbers); for a row with k missing answers,
\* 0 < k < 5, the row with exactly the missing answers replaced by the mean
\* of the row's own present answers; for a row with five missing answers,
\* the row with all five still missing.
C5_RowwiseImputation ==
  [][FillNaStep =>
      /\ raised' = "none"
      /\ Len(out') = Len(data.rows)
      /\ \A i \in 1..Len(data.rows) :
           LET row == CoerceQ(data.rows[i])
           IN /\ [out'[i] EXCEPT !.q = row.q] = row
              /\ \A c \in 1..NumQuestions :
                   IF row.q[c].t = "num" THEN out'[i].q[c] = row.q[c]
                   ELSE IF Present(row) = {} THEN isna(out'[i].q[c])
                   ELSE IsQuotient(out'[i].q[c], AnswerSum(row),
                                   Cardinality(Present(row)))]_vars

C5_Witness ==
  /\ Completed("fill_na_with_mean")
  /\ \E i \in 1..Len(out) :
       /\ Cardinality(Present(data.rows[i])) = 3
       /\ \E c \in 1..NumQuestions : out[i].q[c].t = "num" /\ out[i].q[c].d = 3
  /\ \E i \in 1..Len(out) : Present(data.rows[i]) = {}

Imputed(i) ==
  \E c \in 1..NumQuestions : isna(data.rows[i].q[c]) /\ ~isna(out[i].q[c])

\* C6: the index list fill_na_with_mean returns holds, in dataset order,
\* exactly the indices of the rows that received an imputed value.
C6_IndexListIsImputedRows ==
  Completed("fill_na_with_mean") =>
    /\ \A k \in 1..Len(outIdx) :
         \E i \in 1..Len(data.rows) : data.rows[i].idx = outIdx[k] /\ Imputed(i)
    /\ \A i \in 1..Len(data.rows) :
         Imputed(i) => \E k \in 1..Len(outIdx) : outIdx[k] = data.rows[i].idx
    /\ \A k \in 1..(Len(outIdx) - 1) : outIdx[k] < outIdx[k + 1]

Over40(row) == row.age.n > 40 * row.age.d

\* the positions of the rows that have an age and the key <<g, b>>
GroupMembers(g, b) ==
  {i \in 1..Len(data.rows) :
     /\ data.rows[i].age.t = "num"
     /\ data.rows[i].gender = g
     /\ Over40(data.rows[i]) = b}

\* the cell v is the mean of the non-missing answers to question c over the
\* rows at the positions M
IsColumnMean(v, M, c) ==
  LET P == {i \in M : data.rows[i].q[c].t = "num"}
  IN IF P = {} THEN isna(v)
     ELSE IsQuotient(v, SetSum(P, [i \in P |-> data.rows[i].q[c].n]), Cardinality(P))

GroupsAreMeansOver(genders) ==
  /\ \A g \in outGroups :
       /\ g.gender \in genders
       /\ GroupMembers(g.gender, g.age) # {}
       /\ \A c \in 1..NumQuestions :
            IsColumnMean(g.q[c], GroupMembers(g.gender, g.age), c)
  /\ \A g1, g2 \in outGroups :
       (g1.gender = g2.gender /\ g1.age = g2.age) => g1 = g2
  /\ \A x \in genders, b \in BOOLEAN :
       GroupMembers(x, b) # {} =>
         \E g \in outGroups : g.gender = x /\ g.age = b

AllGenders == {data.rows[i].gender : i \in 1..Len(data.rows)}

\* C7 as stated: only the rows without an age are excluded; the others are
\* partitioned by (gender, age > 40) and every group that has a member is
\* returned with the per-question means of its members.
C7_GroupsOfAllRowsWithAge ==
  Completed("correlate_gender_age") => GroupsAreMeansOver(AllGenders)

\* C7: correlate_gender_age excludes the rows whose age is missing or
\* non-coercible and the rows whose gender is missing, partitions the others
\* by (gender, age > 40), age 40 on the False side, and returns for every
\* group that has a member the per-question means of the non-missing
\* answers of its members; rows with different keys are never merged and
\* no other group appears.
C7_GroupMeans ==
  Completed("correlate_gender_age") =>
    GroupsAreMeansOver({x \in AllGenders : ~isna(x)})

C7_Witness ==
  /\ Completed("correlate_gender_age")
  /\ \E g1, g2 \in outGroups : g1.gender = g2.gender /\ g1.age /\ ~g2.age
  /\ \E i \in 1..Len(data.rows) :
       data.rows[i].age = Num(40) /\ ~isna(data.rows[i].gender)

Operations == {"clean_data", "show_age_distrib", "remove_rows_without_mail",
               "fill_na_with_mean", "score_subjects", "correlate_gender_age"}

\* C8: on a loaded dataset no operation raises.
C8_NoRaiseOnLoadedData ==
  (data.loaded /\ op \in Operations) => raised = "none"

StrictlyValid(x) ==
  /\ CountChar(x, "@") = 1
  /\ Contains(After(x, "@"), ".")
  /\ x[1] # "." /\ x[Len(x)] # "."
  /\ After(x, "@")[1] # "."

\* C9: filtering the frame remove_rows_without_mail returned yields that
\* frame again, numbered from zero, and every row it holds has an email
\* with exactly one '@', a '.' in the domain, no leading or trailing '.'
\* and no '.' at the start of the domain.
C9_EmailFilterIdempotent ==
  Completed("remove_rows_without_mail") =>
    /\ \A i \in 1..Len(out) : ~EmailRaises(out[i].email)
    /\ remove_rows_without_mail(out) = out
    /\ \A i \in 1..Len(out) :
         /\ out[i].idx = i - 1
         /\ out[i].email.t = "str"
         /\ StrictlyValid(out[i].email.s)

C9_Witness ==
  /\ Completed("remove_rows_without_mail")
  /\ Len(out) = 1 /\ Len(data.rows) = 2
  /\ is_valid_email(data.rows[2].email)

ReadOnlyOperations == {"clean_data", "show_age_distrib",
                       "remove_rows_without_mail", "correlate_gender_age"}

\* C10: show_age_distrib, remove_rows_without_mail, correlate_gender_age
\* and clean_data leave the loaded dataset as it was.
C10_ReadOnlyOperations ==
  [][op' \in ReadOnlyOperations => data' = data]_vars

====
